---- MODULE Spec2Model ----
(***************************************************************************)
(* CalMate (src/app.py): the free-text calorie resolver, the suggestion    *)
(* helper and the login / food-log session over the JSON user store.       *)
(*                                                                         *)
(* A Python str is modelled as a sequence of one-character strings, so     *)
(* that strip(), lower(), regular expressions and substring tests act on   *)
(* characters as the interpreter does.  The alphabet is ASCII.             *)
(***************************************************************************)
EXTENDS Integers, Sequences, FiniteSets

\* ------------------------------------------------------------------------
\* State
\* ------------------------------------------------------------------------
VARIABLES
  item_text,   \* the phrase handed to estimate_calories_free_text
  qty,         \* its local qty
  name,        \* its local name
  result,      \* the pair it returns, [name, kcal]
  food_items,  \* the list handed to generate_alternatives
  tips,        \* the list it returns
  pc,          \* "start" before a call, "resolved" / "suggested" after it, "idle" in the session
  user,        \* st.session_state.user
  entries,     \* st.session_state.entries: date -> list of entries
  today,       \* st.session_state.today
  db,          \* the content of calmate_db.json
  view,        \* what the last page run rendered: "none", "auth" or "dashboard"
  raw_text,    \* the local raw_text of the last page run, when it ran the Add handler
  added,       \* the local added of that handler
  last         \* which handler the last page run executed, and its outcome

vars == <<item_text, qty, name, result, food_items, tips, pc,
          user, entries, today, db, view, raw_text, added, last>>

resolver_vars == <<item_text, qty, name, result>>

alt_vars == <<food_items, tips>>

session_vars == <<user, entries, today, db, view, raw_text, added, last>>

\* ------------------------------------------------------------------------
\* Bounds of the model
\* ------------------------------------------------------------------------
\* largest numeric prefix put in front of the base words of the input phrases
MaxQty == 3
\* longest list of names handed to generate_alternatives
MaxNames == 2
\* longest per-date entry list the session model lets Add build
MaxEntries == 2

\* ------------------------------------------------------------------------
\* Python str primitives
\* ------------------------------------------------------------------------
UPPER_CHARS == <<"A","B","C","D","E","F","G","H","I","J","K","L","M","N","O","P","Q","R","S","T","U","V","W","X","Y","Z">>

LOWER_CHARS == <<"a","b","c","d","e","f","g","h","i","j","k","l","m","n","o","p","q","r","s","t","u","v","w","x","y","z">>

DIGIT_CHARS == <<"0","1","2","3","4","5","6","7","8","9">>

\* the alphabet in ascending code-point order (str comparison is by code point)
CODEPOINT_ORDER ==
  <<"\t","\n","\f","\r"," ","(",")",",">> \o DIGIT_CHARS \o <<":">> \o UPPER_CHARS
     \o <<"\\","_">> \o LOWER_CHARS

Range(s) == { s[i] : i \in 1..Len(s) }

Ord(c) == CHOOSE i \in 1..Len(CODEPOINT_ORDER) : CODEPOINT_ORDER[i] = c

\* str.lower() on one character
lower_char(c) ==
  IF \E i \in 1..Len(UPPER_CHARS) : UPPER_CHARS[i] = c
  THEN LOWER_CHARS[CHOOSE i \in 1..Len(UPPER_CHARS) : UPPER_CHARS[i] = c]
  ELSE c

lower(s) == [i \in 1..Len(s) |-> lower_char(s[i])]

\* str.isspace(), the class \s
IsSpace(c) == c \in {" ", "\t", "\n", "\r", "\f"}

\* the class \d
IsDigit(c) == c \in Range(DIGIT_CHARS)

DigitVal(c) == (CHOOSE i \in 1..Len(DIGIT_CHARS) : DIGIT_CHARS[i] = c) - 1

\* the class \w
IsWordChar(c) == c \in Range(UPPER_CHARS) \cup Range(LOWER_CHARS) \cup Range(DIGIT_CHARS) \cup {"_"}

RECURSIVE lstrip(_)
lstrip(s) == IF s # <<>> /\ IsSpace(Head(s)) THEN lstrip(Tail(s)) ELSE s

RECURSIVE rstrip(_)
rstrip(s) == IF s # <<>> /\ IsSpace(s[Len(s)]) THEN rstrip(SubSeq(s, 1, Len(s) - 1)) ELSE s

\* str.strip()
strip(s) == rstrip(lstrip(s))

\* re.sub(r"\s+", " ", s): every maximal run of whitespace becomes one space
RECURSIVE collapse_ws(_)
collapse_ws(s) ==
  IF s = <<>> THEN <<>>
  ELSE IF IsSpace(Head(s))
       THEN <<" ">> \o collapse_ws(lstrip(s))
       ELSE <<Head(s)>> \o collapse_ws(Tail(s))

\* Python's  sub in s
Contains(s, sub) ==
  \E i \in 0..(Len(s) - Len(sub)) : SubSeq(s, i + 1, i + Len(sub)) = sub

\* a < b on str (lexicographic by code point)
RECURSIVE StrLess(_, _)
StrLess(a, b) ==
  IF b = <<>> THEN FALSE
  ELSE IF a = <<>> THEN TRUE
  ELSE IF Head(a) = Head(b) THEN StrLess(Tail(a), Tail(b))
  ELSE Ord(Head(a)) < Ord(Head(b))

\* int(s) for a run of decimal digits
RECURSIVE int(_)
int(s) == IF s = <<>> THEN 0 ELSE 10 * int(SubSeq(s, 1, Len(s) - 1)) + DigitVal(s[Len(s)])

\* str(n) for n >= 0
RECURSIVE str(_)
str(n) == IF n < 10 THEN <<DIGIT_CHARS[n + 1]>> ELSE str(n \div 10) \o <<DIGIT_CHARS[(n % 10) + 1]>>

Max(a, b) == IF a >= b THEN a ELSE b

Min(a, b) == IF a <= b THEN a ELSE b

\* ------------------------------------------------------------------------
\* The tables of the program, in source order (dict order is insertion order)
\* ------------------------------------------------------------------------

FOOD_ITEMS ==
  << <<<<"r","o","t","i">>, 80>>,
     <<<<"c","h","a","p","a","t","i">>, 80>>,
     <<<<"p","a","r","a","t","h","a">>, 180>>,
     <<<<"n","a","a","n">>, 260>>,
     <<<<"p","u","r","i">>, 100>>,
     <<<<"r","i","c","e"," ","(","1"," ","c","u","p",")">>, 206>>,
     <<<<"b","r","o","w","n"," ","r","i","c","e"," ","(","1"," ","c","u","p",")">>, 215>>,
     <<<<"b","i","r","y","a","n","i"," ","(","1"," ","p","l","a","t","e",")">>, 550>>,
     <<<<"d","a","l"," ","(","1"," ","c","u","p",")">>, 180>>,
     <<<<"s","a","m","b","a","r"," ","(","1"," ","c","u","p",")">>, 150>>,
     <<<<"r","a","s","a","m"," ","(","1"," ","c","u","p",")">>, 60>>,
     <<<<"i","d","l","i"," ","(","1"," ","p","i","e","c","e",")">>, 58>>,
     <<<<"d","o","s","a"," ","(","1",")",":">>, 180>>,
     <<<<"v","a","d","a"," ","(","1",")">>, 140>>,
     <<<<"u","t","t","a","p","a","m"," ","(","1",")">>, 220>>,
     <<<<"p","o","h","a"," ","(","1"," ","p","l","a","t","e",")">>, 250>>,
     <<<<"u","p","m","a"," ","(","1"," ","b","o","w","l",")">>, 250>>,
     <<<<"p","a","v"," ","b","h","a","j","i"," ","(","1"," ","p","l","a","t","e",")">>, 450>>,
     <<<<"c","h","o","l","e"," ","(","1"," ","c","u","p",")">>, 280>>,
     <<<<"r","a","j","m","a"," ","(","1"," ","c","u","p",")">>, 260>>,
     <<<<"p","a","n","e","e","r"," ","b","u","t","t","e","r"," ","m","a","s","a","l","a"," ","(","1"," ","c","u","p",")">>, 450>>,
     <<<<"k","a","d","a","i"," ","p","a","n","e","e","r"," ","(","1"," ","c","u","p",")">>, 320>>,
     <<<<"b","u","t","t","e","r"," ","c","h","i","c","k","e","n"," ","(","1"," ","c","u","p",")">>, 420>>,
     <<<<"c","h","i","c","k","e","n"," ","c","u","r","r","y"," ","(","1"," ","c","u","p",")">>, 300>>,
     <<<<"m","u","t","t","o","n"," ","c","u","r","r","y"," ","(","1"," ","c","u","p",")">>, 450>>,
     <<<<"f","i","s","h"," ","c","u","r","r","y"," ","(","1"," ","c","u","p",")">>, 320>>,
     <<<<"e","g","g"," ","(","1",")">>, 78>>,
     <<<<"o","m","e","l","e","t","t","e"," ","(","2"," ","e","g","g","s",")">>, 190>>,
     <<<<"m","a","g","g","i"," ","(","1"," ","p","a","c","k","e","t",")">>, 330>>,
     <<<<"s","a","m","o","s","a"," ","(","1",")">>, 250>>,
     <<<<"p","a","k","o","r","a"," ","(","5"," ","p","c","s",")">>, 300>>,
     <<<<"c","h","i","c","k","e","n"," ","r","o","l","l"," ","(","1",")">>, 380>>,
     <<<<"k","a","c","h","o","r","i"," ","(","1",")">>, 200>>,
     <<<<"j","a","l","e","b","i"," ","(","1","0","0"," ","g",")">>, 400>>,
     <<<<"g","o","l","g","a","p","p","a"," ","(","6",")">>, 150>>,
     <<<<"c","h","a","i"," ","(","1"," ","c","u","p",")">>, 100>>,
     <<<<"c","o","f","f","e","e"," ","(","1"," ","c","u","p",")">>, 60>>,
     <<<<"l","a","s","s","i"," ","(","1"," ","g","l","a","s","s",")">>, 250>>,
     <<<<"b","u","t","t","e","r","m","i","l","k"," ","(","1"," ","g","l","a","s","s",")">>, 70>>,
     <<<<"s","o","d","a"," ","(","1"," ","c","a","n",")">>, 140>>,
     <<<<"p","i","z","z","a"," ","s","l","i","c","e"," ","(","1",")">>, 285>>,
     <<<<"b","u","r","g","e","r"," ","(","1",")">>, 500>>,
     <<<<"f","r","i","e","s"," ","(","m","e","d","i","u","m",")">>, 365>>,
     <<<<"s","a","n","d","w","i","c","h"," ","(","1",")">>, 300>>,
     <<<<"p","a","s","t","a"," ","(","1"," ","c","u","p",")">>, 220>>,
     <<<<"b","r","e","a","d"," ","s","l","i","c","e"," ","(","1",")">>, 70>>,
     <<<<"b","u","t","t","e","r"," ","(","1"," ","t","b","s","p",")">>, 102>>,
     <<<<"g","h","e","e"," ","(","1"," ","t","b","s","p",")">>, 120>>,
     <<<<"c","u","r","d"," ","(","1"," ","c","u","p",")">>, 200>>,
     <<<<"y","o","g","u","r","t"," ","(","1"," ","c","u","p",")">>, 150>>,
     <<<<"m","i","l","k"," ","(","1"," ","c","u","p",")">>, 120>>,
     <<<<"o","a","t","s"," ","(","1"," ","c","u","p"," ","c","o","o","k","e","d",")">>, 160>>,
     <<<<"q","u","i","n","o","a"," ","(","1"," ","c","u","p"," ","c","o","o","k","e","d",")">>, 220>>,
     <<<<"c","o","r","n","f","l","a","k","e","s"," ","(","1"," ","c","u","p",")">>, 100>>,
     <<<<"a","p","p","l","e"," ","(","1",")">>, 95>>,
     <<<<"b","a","n","a","n","a"," ","(","1",")">>, 105>>,
     <<<<"o","r","a","n","g","e"," ","(","1",")">>, 62>>,
     <<<<"g","r","a","p","e","s"," ","(","1"," ","c","u","p",")">>, 104>>,
     <<<<"g","u","l","a","b"," ","j","a","m","u","n"," ","(","1",")">>, 150>>,
     <<<<"l","a","d","o","o"," ","(","1",")">>, 185>>,
     <<<<"k","h","e","e","r"," ","(","1"," ","b","o","w","l",")">>, 300>>,
     <<<<"h","a","l","w","a"," ","(","1"," ","b","o","w","l",")">>, 350>>,
     <<<<"s","a","l","a","d"," ","(","1"," ","b","o","w","l",")">>, 120>> >>

FOOD_KEYS == { FOOD_ITEMS[i][1] : i \in 1..Len(FOOD_ITEMS) }

FOOD_DB == [k \in FOOD_KEYS |-> (CHOOSE p \in Range(FOOD_ITEMS) : p[1] = k)[2]]

SYNONYMS ==
  << <<<<"c","h","a","p","a","t","h","i">>, <<"c","h","a","p","a","t","i">>>>,
     <<<<"c","h","a","p","a","t","h","i"," ","r","o","t","i">>, <<"r","o","t","i">>>>,
     <<<<"p","a","r","a","n","t","h","a">>, <<"p","a","r","a","t","h","a">>>>,
     <<<<"t","e","a">>, <<"c","h","a","i">>>>,
     <<<<"c","o","f","f","e","e">>, <<"c","o","f","f","e","e">>>>,
     <<<<"p","a","n","e","e","r"," ","b","u","t","t","e","r">>, <<"p","a","n","e","e","r"," ","b","u","t","t","e","r"," ","m","a","s","a","l","a"," ","(","1"," ","c","u","p",")">>>>,
     <<<<"b","u","t","t","e","r"," ","p","a","n","e","e","r">>, <<"p","a","n","e","e","r"," ","b","u","t","t","e","r"," ","m","a","s","a","l","a"," ","(","1"," ","c","u","p",")">>>>,
     <<<<"c","h","i","c","k","e","n"," ","b","i","r","y","a","n","i">>, <<"b","i","r","y","a","n","i"," ","(","1"," ","p","l","a","t","e",")">>>>,
     <<<<"v","e","g"," ","b","i","r","y","a","n","i">>, <<"b","i","r","y","a","n","i"," ","(","1"," ","p","l","a","t","e",")">>>>,
     <<<<"c","u","r","d">>, <<"y","o","g","u","r","t"," ","(","1"," ","c","u","p",")">>>>,
     <<<<"d","a","h","i">>, <<"y","o","g","u","r","t"," ","(","1"," ","c","u","p",")">>>>,
     <<<<"b","h","a","j","i">>, <<"p","a","v"," ","b","h","a","j","i"," ","(","1"," ","p","l","a","t","e",")">>>>,
     <<<<"f","r","i","e","d"," ","p","o","t","a","t","o","e","s">>, <<"f","r","i","e","s"," ","(","m","e","d","i","u","m",")">>>>,
     <<<<"f","r","e","n","c","h"," ","f","r","i","e","s">>, <<"f","r","i","e","s"," ","(","m","e","d","i","u","m",")">>>>,
     <<<<"o","m","e","l","e","t">>, <<"o","m","e","l","e","t","t","e"," ","(","2"," ","e","g","g","s",")">>>>,
     <<<<"m","a","g","g","i"," ","n","o","o","d","l","e","s">>, <<"m","a","g","g","i"," ","(","1"," ","p","a","c","k","e","t",")">>>> >>

WORD_NUM ==
  << <<<<"o","n","e">>, 1>>,
     <<<<"t","w","o">>, 2>>,
     <<<<"t","h","r","e","e">>, 3>>,
     <<<<"f","o","u","r">>, 4>>,
     <<<<"f","i","v","e">>, 5>>,
     <<<<"s","i","x">>, 6>>,
     <<<<"s","e","v","e","n">>, 7>>,
     <<<<"e","i","g","h","t">>, 8>>,
     <<<<"n","i","n","e">>, 9>>,
     <<<<"t","e","n">>, 10>>,
     <<<<"a">>, 1>>,
     <<<<"a","n">>, 1>> >>

\* the tips, without their emoji
ALT_SUGGESTIONS ==
  << <<<<"p","a","r","a","t","h","a">>, "Swap paratha with chapati/roti to cut oil and save about 80-100 kcal per piece.">>,
     <<<<"b","i","r","y","a","n","i">>, "Try veg pulao or smaller portion biryani; pair with salad to fill up.">>,
     <<<<"p","a","n","e","e","r"," ","b","u","t","t","e","r"," ","m","a","s","a","l","a">>, "Choose kadai paneer or palak paneer; ask for less butter/ghee.">>,
     <<<<"f","r","i","e","s">>, "Baked sweet potato wedges or roasted chana.">>,
     <<<<"b","u","r","g","e","r">>, "Grilled chicken or paneer sandwich with whole wheat bread, skip extra cheese.">>,
     <<<<"p","i","z","z","a">>, "Thin-crust veggie pizza, go easy on cheese, add a side salad.">>,
     <<<<"s","a","m","o","s","a">>, "Air-fried samosa or chana chaat; limit to one.">>,
     <<<<"j","a","l","e","b","i">>, "Fresh fruit or a small piece of dark chocolate.">>,
     <<<<"h","a","l","w","a">>, "Fruit yogurt or kheer with less sugar.">> >>

\* ------------------------------------------------------------------------
\* Inputs
\* ------------------------------------------------------------------------

EXAMPLE_PHRASES ==
  { <<"2"," ","r","o","t","i">>,
    <<"c","h","i","c","k","e","n"," ","b","i","r","y","a","n","i">>,
    <<"g","r","i","l","l","e","d"," ","f","i","s","h">>,
    <<"3"," ","f","r","i","e","d"," ","p","a","k","o","r","a">>,
    <<"t","w","o"," ","3"," ","r","o","t","i">>,
    <<"0"," ","r","o","t","i">>,
    <<"t","w","o"," ","r","o","t","i">>,
    <<"T","w","o"," ","r","o","t","i">>,
    <<"T","W","O"," ","r","o","t","i">>,
    <<"a"," ","p","l","a","t","e"," ","o","f"," ","t","w","o"," ","r","o","t","i">>,
    <<"a","n"," ","a","p","p","l","e">>,
    <<"t","e","a">>,
    <<"c","o","f","f","e","e">>,
    <<"c","h","a","i">>,
    <<"s","t","e","a","m","e","d"," ","r","i","c","e">>,
    <<"1"," ","s","a","m","o","s","a">>,
    <<"s","a","m","o","s","a">>,
    <<" "," ","P","a","n","e","e","r"," "," "," ","T","i","k","k","a"," ">>,
    <<"C","h","a","p","a","t","h","i"," ","R","o","t","i">>,
    <<"d","o","s","a">>,
    <<"1","0"," ","i","d","l","i">>,
    <<"f","r","i","e","d"," ","c","h","e","e","s","e"," ","j","a","l","e","b","i">>,
    <<"F","R","I","E","D"," ","F","I","S","H">>,
    <<"d","e","e","p"," ","f","r","y"," ","b","u","t","t","e","r"," ","g","h","e","e">>,
    <<"s","w","e","e","t"," ","s","u","g","a","r"," ","s","y","r","u","p"," ","s","o","u","p">>,
    <<"b","o","i","l","e","d"," ","e","g","g">>,
    <<"b","u","t","t","e","r"," ","n","a","a","n">>,
    <<"o","n","e"," ","c","u","p"," ","d","a","l">>,
    <<"t","e","n"," ","p","u","r","i">>,
    <<"b","a","n","a","n","a">>,
    <<"m","u","t","t","o","n"," ","c","u","r","r","y">>,
    <<"v","e","g"," ","b","i","r","y","a","n","i">>,
    <<"m","a","g","g","i"," ","n","o","o","d","l","e","s">>,
    <<"f","r","e","n","c","h"," ","f","r","i","e","s">>,
    <<"a","_","t","w","o"," ","r","o","t","i">>,
    <<"t","w","o","f","o","l","d"," ","0","0","7"," ","k","h","e","e","r">>,
    <<"c","h","e","e","s","e"," ","p","i","z","z","a",","," ","s","l","i","c","e">>,
    <<"1"," ","s","a","m","o","s","a","\n","c","h","a","i">> }

BASE_WORDS ==
  { <<"r","o","t","i">>,
    <<"f","r","i","e","d"," ","p","a","k","o","r","a">>,
    <<"c","u","r","d">>,
    <<"g","r","i","l","l","e","d"," ","f","i","s","h">>,
    <<"N","a","a","n">> }

PHRASES ==
  FOOD_KEYS \cup EXAMPLE_PHRASES
    \cup { str(n) \o <<" ">> \o w : n \in 0..MaxQty, w \in BASE_WORDS }

\* ------------------------------------------------------------------------
\* extract_quantity
\* ------------------------------------------------------------------------
\* re.search(r"(\d+)", text): index of the first digit, 0 when there is none
RECURSIVE first_digit(_, _)
first_digit(text, i) ==
  IF i > Len(text) THEN 0
  ELSE IF IsDigit(text[i]) THEN i
  ELSE first_digit(text, i + 1)

\* the greedy \d+ : last index of the run of digits that starts at i
RECURSIVE digit_run_end(_, _)
digit_run_end(text, i) ==
  IF i < Len(text) /\ IsDigit(text[i + 1]) THEN digit_run_end(text, i + 1) ELSE i

\* \b at offset p (between text[p] and text[p+1]); outside the string counts as \W
WordBoundary(text, p) ==
  LET before == p >= 1 /\ IsWordChar(text[p])
      after  == p < Len(text) /\ IsWordChar(text[p + 1])
  IN  before # after

\* re.search(rf"\b{w}\b", text): case sensitive, no flags
word_search(w, text) ==
  \E i \in 0..(Len(text) - Len(w)) :
     /\ SubSeq(text, i + 1, i + Len(w)) = w
     /\ WordBoundary(text, i)
     /\ WordBoundary(text, i + Len(w))

UNIT_WORDS == { <<"c","u","p">>, <<"b","o","w","l">>, <<"p","l","a","t","e">>, <<"s","l","i","c","e">>, <<"p","i","e","c","e">>, <<"p","c","s">>, <<"g","l","a","s","s">> }

\* for w, v in WORD_NUM.items(): if re.search(...): return v   -- from entry i on
RECURSIVE word_num_loop(_, _)
word_num_loop(text, i) ==
  IF i > Len(WORD_NUM)
  THEN IF \E u \in UNIT_WORDS : word_search(u, text) THEN 1 ELSE 1
  ELSE IF word_search(WORD_NUM[i][1], text) THEN WORD_NUM[i][2]
  ELSE word_num_loop(text, i + 1)

\* variant: the number words are tried before the digits
extract_quantity_words_first(text) ==
  LET m == first_digit(text, 1)
  IN  IF \E i \in 1..Len(WORD_NUM) : word_search(WORD_NUM[i][1], text)
      THEN word_num_loop(text, 1)
      ELSE IF m # 0
      THEN Max(1, int(SubSeq(text, m, digit_run_end(text, m))))
      ELSE 1

extract_quantity(text) ==
  LET m == first_digit(text, 1)
  IN  IF m # 0
      THEN Max(1, int(SubSeq(text, m, digit_run_end(text, m))))
      ELSE word_num_loop(text, 1)

\* ------------------------------------------------------------------------
\* difflib.get_close_matches(n, candidates, n=1, cutoff=0.7)
\* (no junk: autojunk only applies to sequences of 200 or more elements)
\* ------------------------------------------------------------------------
CUTOFF_NUM == 7

CUTOFF_DEN == 10

\* length of the common run of a and b that starts at a[i], b[j]
RECURSIVE MatchLen(_, _, _, _, _, _)
MatchLen(a, b, i, j, ahi, bhi) ==
  IF i <= ahi /\ j <= bhi /\ a[i] = b[j] THEN 1 + MatchLen(a, b, i + 1, j + 1, ahi, bhi) ELSE 0

\* SequenceMatcher.find_longest_match on a[alo..ahi], b[blo..bhi] (1-based,
\* inclusive): the longest block; of those the one earliest in a, then in b
find_longest_match(a, b, alo, ahi, blo, bhi) ==
  LET ml == [p \in (alo..ahi) \X (blo..bhi) |-> MatchLen(a, b, p[1], p[2], ahi, bhi)]
      k  == CHOOSE x \in { ml[p] : p \in DOMAIN ml } : \A p \in DOMAIN ml : ml[p] <= x
      i  == CHOOSE x \in alo..ahi :
              /\ \E j \in blo..bhi : ml[<<x, j>>] = k
              /\ \A y \in alo..(x - 1) : \A j \in blo..bhi : ml[<<y, j>>] # k
      j  == CHOOSE x \in blo..bhi :
              /\ ml[<<i, x>>] = k
              /\ \A y \in blo..(x - 1) : ml[<<i, y>>] # k
  IN  [i |-> i, j |-> j, size |-> k]

\* sum of the sizes of SequenceMatcher.get_matching_blocks(): the longest
\* block m of the range, then the blocks to its left and to its right
RECURSIVE matches(_, _, _, _, _, _)
RECURSIVE matches_around(_, _, _, _, _, _, _)
matches_around(a, b, alo, ahi, blo, bhi, m) ==
  IF m.size = 0 THEN 0
  ELSE m.size + matches(a, b, alo, m.i - 1, blo, m.j - 1)
              + matches(a, b, m.i + m.size, ahi, m.j + m.size, bhi)

matches(a, b, alo, ahi, blo, bhi) ==
  IF alo > ahi \/ blo > bhi THEN 0
  ELSE matches_around(a, b, alo, ahi, blo, bhi, find_longest_match(a, b, alo, ahi, blo, bhi))

Count(s, c) == Cardinality({ i \in 1..Len(s) : s[i] = c })

\* the ratios as fractions <<numerator, denominator>> of 2.0*matches/length
ratio(a, b) ==
  IF Len(a) + Len(b) = 0 THEN <<1, 1>>
  ELSE <<2 * matches(a, b, 1, Len(a), 1, Len(b)), Len(a) + Len(b)>>

quick_ratio(a, b) ==
  LET RECURSIVE avail(_)
      avail(cs) == IF cs = {} THEN 0
                   ELSE LET c == CHOOSE x \in cs : TRUE
                        IN  Min(Count(a, c), Count(b, c)) + avail(cs \ {c})
  IN  IF Len(a) + Len(b) = 0 THEN <<1, 1>>
      ELSE <<2 * avail(Range(a)), Len(a) + Len(b)>>

real_quick_ratio(a, b) ==
  IF Len(a) + Len(b) = 0 THEN <<1, 1>>
  ELSE <<2 * Min(Len(a), Len(b)), Len(a) + Len(b)>>

AtLeastCutoff(r) == r[1] * CUTOFF_DEN >= CUTOFF_NUM * r[2]

\* the pairs (score, x) of the candidates x that pass the three tests
scored(word, possibilities) ==
  { <<ratio(x, word), x>> :
      x \in { y \in possibilities :
                /\ AtLeastCutoff(real_quick_ratio(y, word))
                /\ AtLeastCutoff(quick_ratio(y, word))
                /\ AtLeastCutoff(ratio(y, word)) } }

\* (score, x) > (score, y) on tuples: by score, then by the string
pair_greater(p, q) ==
  \/ p[1][1] * q[1][2] > q[1][1] * p[1][2]
  \/ /\ p[1][1] * q[1][2] = q[1][1] * p[1][2]
     /\ StrLess(q[2], p[2])

\* heapq.nlargest(1, pairs), keeping the strings
nlargest_1(pairs) ==
  IF pairs = {} THEN <<>>
  ELSE <<(CHOOSE p \in pairs : \A q \in pairs \ {p} : pair_greater(p, q))[2]>>

get_close_matches(word, possibilities) == nlargest_1(scored(word, possibilities))

\* ------------------------------------------------------------------------
\* normalize_food_name
\* ------------------------------------------------------------------------
\* for k, v in SYNONYMS.items(): if k in n: return v   -- from entry i on;
\* <<>> when the loop ends without returning
RECURSIVE synonym_loop(_, _)
synonym_loop(n, i) ==
  IF i > Len(SYNONYMS) THEN <<>>
  ELSE IF Contains(n, SYNONYMS[i][1]) THEN <<SYNONYMS[i][2]>>
  ELSE synonym_loop(n, i + 1)

\* lst[0] if lst else otherwise
first_or(lst, otherwise) == IF lst # <<>> THEN lst[1] ELSE otherwise

\* match = get_close_matches(n, candidates, n=1, cutoff=0.7); match[0] or n
fuzzy_or_self(n) == first_or(get_close_matches(n, FOOD_KEYS), n)

\* the three steps on the normalised text n
lookup(n) ==
  first_or(synonym_loop(n, 1), IF n \in DOMAIN FOOD_DB THEN n ELSE fuzzy_or_self(n))

\* variant: the exact catalog key is tried before the synonyms
normalize_food_name_exact_first(raw_name) ==
  LET n == collapse_ws(lower(strip(raw_name)))
  IN  IF n \in DOMAIN FOOD_DB THEN n ELSE first_or(synonym_loop(n, 1), fuzzy_or_self(n))

normalize_food_name(raw_name) == lookup(collapse_ws(lower(strip(raw_name))))

\* ------------------------------------------------------------------------
\* estimate_calories_free_text
\* ------------------------------------------------------------------------
FRIED_WORDS == { <<"f","r","i","e","d">>, <<"d","e","e","p"," ","f","r","y">>, <<"p","a","k","o","r","a">>, <<"b","h","a","j","i">> }

BUTTER_WORDS == { <<"b","u","t","t","e","r">>, <<"c","r","e","a","m">>, <<"c","h","e","e","s","e">>, <<"p","a","n","e","e","r">>, <<"g","h","e","e">> }

SWEET_WORDS == { <<"s","w","e","e","t">>, <<"d","e","s","s","e","r","t">>, <<"s","u","g","a","r">>, <<"s","y","r","u","p">>, <<"j","a","m","u","n">>, <<"j","a","l","e","b","i">>, <<"h","a","l","w","a">>, <<"k","h","e","e","r">> }

GRILLED_WORDS == { <<"g","r","i","l","l","e","d">>, <<"b","o","i","l","e","d">>, <<"s","t","e","a","m","e","d">>, <<"s","a","l","a","d">>, <<"s","o","u","p">> }

ESTIMATED_SUFFIX == <<" ","(","e","s","t","i","m","a","t","e","d",")">>

\* any(w in text for w in words)
any_in(words, text) == \E w \in words : Contains(text, w)

\* variant: every keyword that occurs adds its group's amount
fallback_base_per_keyword(phrase) ==
  LET text == lower(phrase)
      hits(words) == Cardinality({ w \in words : Contains(text, w) })
  IN  Max(50, 150 + 200 * hits(FRIED_WORDS) + 150 * hits(BUTTER_WORDS)
                  + 180 * hits(SWEET_WORDS) - 50 * hits(GRILLED_WORDS))

fallback_base(phrase) ==
  LET text  == lower(phrase)
      base0 == 150
      base1 == IF any_in(FRIED_WORDS, text) THEN base0 + 200 ELSE base0
      base2 == IF any_in(BUTTER_WORDS, text) THEN base1 + 150 ELSE base1
      base3 == IF any_in(SWEET_WORDS, text) THEN base2 + 180 ELSE base2
      base4 == IF any_in(GRILLED_WORDS, text) THEN base3 - 50 ELSE base3
  IN  Max(50, base4)

\* the two returns, for the quantity q and the resolved name nm
estimate_from(phrase, q, nm) ==
  IF nm \in DOMAIN FOOD_DB
  THEN [name |-> nm, kcal |-> FOOD_DB[nm] * q]
  ELSE [name |-> strip(phrase) \o ESTIMATED_SUFFIX, kcal |-> fallback_base(phrase) * q]

\* variant: the resolved name is returned whether or not it is a catalog key
estimate_calories_free_text_resolved_name(phrase) ==
  LET nm == normalize_food_name(phrase)
  IN  [estimate_from(phrase, extract_quantity(phrase), nm) EXCEPT !.name = nm]

estimate_calories_free_text(phrase) ==
  estimate_from(phrase, extract_quantity(phrase), normalize_food_name(phrase))

\* ------------------------------------------------------------------------
\* generate_alternatives
\* ------------------------------------------------------------------------
GENERIC_TIP_1 == "Choose grilled/roasted over fried, and ask for less butter/ghee."

GENERIC_TIP_2 == "Add a fiber boost: salad, veggies, dal to feel full with fewer calories."

\* for k, msg in ALT_SUGGESTIONS.items(): if k in key: tips.append(msg)  -- from entry i on
RECURSIVE alt_loop(_, _)
alt_loop(key, i) ==
  IF i > Len(ALT_SUGGESTIONS) THEN <<>>
  ELSE (IF Contains(key, ALT_SUGGESTIONS[i][1]) THEN <<ALT_SUGGESTIONS[i][2]>> ELSE <<>>)
          \o alt_loop(key, i + 1)

\* for f in food_items: key = f.lower(); ...
RECURSIVE items_loop(_)
items_loop(names) ==
  IF names = <<>> THEN <<>>
  ELSE alt_loop(lower(Head(names)), 1) \o items_loop(Tail(names))

\* list(dict.fromkeys(tips)): the first occurrence of each element, in order
RECURSIVE unique(_)
unique(lst) ==
  IF lst = <<>> THEN <<>>
  ELSE LET front == unique(SubSeq(lst, 1, Len(lst) - 1))
           x     == lst[Len(lst)]
       IN  IF x \in Range(front) THEN front ELSE Append(front, x)

\* variant: the collected tips are returned as they are
generate_alternatives_not_unique(names) ==
  items_loop(names) \o <<GENERIC_TIP_1, GENERIC_TIP_2>>

generate_alternatives(names) ==
  unique(items_loop(names) \o <<GENERIC_TIP_1, GENERIC_TIP_2>>)

\* names handed to generate_alternatives: resolved names as the resolver
\* returns them (catalog keys and "(estimated)" labels)
ALT_NAMES ==
  { <<"p","a","r","a","t","h","a">>, <<"r","o","t","i">>, <<"b","i","r","y","a","n","i"," ","(","1"," ","p","l","a","t","e",")">>, <<"j","a","l","e","b","i"," ","(","1","0","0"," ","g",")">>,
    <<"S","a","m","o","s","a"," ","H","a","l","w","a"," ","(","e","s","t","i","m","a","t","e","d",")">>, <<"B","U","R","G","E","R"," ","P","I","Z","Z","A"," ","(","e","s","t","i","m","a","t","e","d",")">>, <<"h","a","l","w","a"," ","(","1"," ","b","o","w","l",")">> }

RECURSIVE SeqsUpTo(_, _)
SeqsUpTo(S, n) ==
  IF n = 0 THEN { <<>> }
  ELSE LET shorter == SeqsUpTo(S, n - 1)
       IN  shorter \cup { Append(s, x) : s \in shorter, x \in S }

\* Python's None
None == "None"

NO_RESULT == [name |-> <<>>, kcal |-> 0]

ResolverIdle ==
  /\ item_text = <<>> /\ qty = 0 /\ name = <<>> /\ result = NO_RESULT

AltIdle ==
  /\ food_items = <<>> /\ tips = <<>>

\* ------------------------------------------------------------------------
\* The resolver called on one phrase
\* ------------------------------------------------------------------------
InitResolve ==
  /\ item_text \in PHRASES
  /\ qty = 0 /\ name = <<>> /\ result = NO_RESULT
  /\ pc = "start"

\* one call of estimate_calories_free_text(item_text), with its locals
Resolve ==
  /\ pc = "start"
  /\ qty' = extract_quantity(item_text)
  /\ name' = normalize_food_name(item_text)
  /\ result' = estimate_calories_free_text(item_text)
  /\ pc' = "resolved"
  /\ UNCHANGED <<item_text, alt_vars, session_vars>>

\* ------------------------------------------------------------------------
\* generate_alternatives called on one list of names
\* ------------------------------------------------------------------------
InitAlt ==
  /\ food_items \in SeqsUpTo(ALT_NAMES, MaxNames)
  /\ tips = <<>>
  /\ pc = "start"

Alternatives ==
  /\ pc = "start"
  /\ tips' = generate_alternatives(food_items)
  /\ pc' = "suggested"
  /\ UNCHANGED <<food_items, resolver_vars, session_vars>>

\* ------------------------------------------------------------------------
\* The session: store, session state, page runs
\* ------------------------------------------------------------------------
DATES == <<"2024-01-01", "2024-01-02">>

\* date.today().isoformat()
TODAY == DATES[1]

USERNAMES == {"alice", "bob"}

PASSWORDS == {"pw1", "pw2"}

\* hashlib.sha256(pw.encode()).hexdigest(): a digest, one per password
hash_pw(pw) == "sha256(" \o pw \o ")"

\* {}
EMPTY_DICT == [k \in {} |-> <<>>]

\* the empty store, what load_db returns when there is no file
EMPTY_DB == [users |-> EMPTY_DICT]

\* the entry the Add handler builds for one item
make_entry(it, r) == [raw |-> strip(it), name |-> r.name, kcal |-> r.kcal]

entry_of(it) == make_entry(it, estimate_calories_free_text(it))

\* re.split(r"[,\\n]+", raw_text): the raw pattern is the class of the three
\* characters  ,  \  n  -- the pieces between maximal runs of them, the empty
\* pieces at both ends included
SPLIT_CHARS == {",", "\\", "n"}

RECURSIVE skip_separators(_)
skip_separators(s) ==
  IF s # <<>> /\ Head(s) \in SPLIT_CHARS THEN skip_separators(Tail(s)) ELSE s

RECURSIVE re_split(_, _)
re_split(s, piece) ==
  IF s = <<>> THEN <<piece>>
  ELSE IF Head(s) \in SPLIT_CHARS
       THEN <<piece>> \o re_split(skip_separators(s), <<>>)
       ELSE re_split(Tail(s), Append(piece, Head(s)))

\* [i for i in re.split(...) if i.strip()]
split_items(text) == SelectSeq(re_split(text, <<>>), LAMBDA i : strip(i) # <<>>)

\* what is typed into the text area
RAW_TEXTS ==
  { <<"n","a","a","n">>, <<"1"," ","s","a","m","o","s","a","\n","c","h","a","i">>, <<"2"," ","r","o","t","i",","," ",",","d","a","l"," ","(","1"," ","c","u","p",")">>, <<" ",","," ">> }

\* stores left behind by earlier runs of the program
SEED_ENTRIES ==
  { EMPTY_DICT, [d \in {TODAY} |-> <<entry_of(<<"p","u","r","i">>)>>] }

INITIAL_STORES ==
  { [users |-> f] :
      f \in UNION { [U -> [pw : {hash_pw("pw1")}, entries : SEED_ENTRIES, remember : BOOLEAN]]
                    : U \in SUBSET USERNAMES } }

\* the loop of the Add handler over the items of each text:
\* for it in items: name, kcal = estimate_calories_free_text(it); entry = {...}
RECURSIVE add_loop(_)
add_loop(items) ==
  IF items = <<>> THEN <<>> ELSE <<entry_of(Head(items))>> \o add_loop(Tail(items))

\* the same, tabulated for the texts of the model
ADDED_FOR == { <<text, add_loop(split_items(text))>> : text \in RAW_TEXTS }

added_for(text) == (CHOOSE p \in ADDED_FOR : p[1] = text)[2]

SessionIdle ==
  /\ user = None /\ entries = EMPTY_DICT /\ today = TODAY
  /\ db = EMPTY_DB /\ view = "none" /\ raw_text = <<>> /\ added = <<>> /\ last = "init"

\* the session state of a fresh session (lines 254-259) over some store
InitSession ==
  /\ user = None
  /\ entries = EMPTY_DICT
  /\ today = TODAY
  /\ db \in INITIAL_STORES
  /\ view = "none" /\ raw_text = <<>> /\ added = <<>> /\ last = "init"

\* the entrypoint: auto-login when exactly one user of the store is remembered
auto_login(u, d) ==
  LET remembered_users == { x \in DOMAIN d.users : d.users[x].remember }
  IN  IF u = None /\ Cardinality(remembered_users) = 1
      THEN CHOOSE x \in remembered_users : TRUE
      ELSE u

\* if st.session_state.user: dashboard() else: auth_panel()
rendered(u) == IF u # None /\ u # "" THEN "dashboard" ELSE "auth"

\* db["users"][u]["entries"] = e ; save_db(db)
store_entries(d, u, e) ==
  [d EXCEPT !.users = [@ EXCEPT ![u] = [@ EXCEPT !.entries = e]]]

\* entries.get(date, [])
get_list(e, d) == IF d \in DOMAIN e THEN e[d] ELSE <<>>

\* entries[date] = lst
set_list(e, d, lst) == [k \in DOMAIN e \cup {d} |-> IF k = d THEN lst ELSE e[k]]

\* number of entries in a dict date -> list
RECURSIVE size_over(_, _)
size_over(e, ks) ==
  IF ks = {} THEN 0
  ELSE LET k == CHOOSE x \in ks : TRUE
       IN  Len(e[k]) + size_over(e, ks \ {k})

size(e) == size_over(e, DOMAIN e)

\* raw_text and added are locals of the run of the Add handler
NoAdd == raw_text' = <<>> /\ added' = <<>>

\* the first run of the script in a new session
PageRun ==
  /\ view = "none"
  /\ user' = auto_login(user, db)
  /\ view' = rendered(user')
  /\ last' = "start"
  /\ NoAdd
  /\ UNCHANGED <<entries, today, db, pc, resolver_vars, alt_vars>>

\* the Login button of the auth panel
Login(uname, pw, remember) ==
  /\ view = "auth"
  /\ LET u0    == auto_login(user, db)
         users == db.users
     IN  IF rendered(u0) = "dashboard"
         THEN /\ user' = u0 /\ view' = "dashboard" /\ last' = "start"
              /\ UNCHANGED <<entries, db>>
         ELSE IF uname \in DOMAIN users /\ users[uname].pw = hash_pw(pw)
         THEN /\ user' = uname
              /\ entries' = users[uname].entries
              /\ db' = IF remember
                       THEN [db EXCEPT !.users = [@ EXCEPT ![uname] = [@ EXCEPT !.remember = TRUE]]]
                       ELSE db
              /\ view' = rendered(user')
              /\ last' = "login"
         ELSE /\ last' = "login_failed"
              /\ view' = "auth"
              /\ UNCHANGED <<user, entries, db>>
  /\ NoAdd
  /\ UNCHANGED <<today, pc, resolver_vars, alt_vars>>

\* the Create account button of the auth panel
Signup(suname, spw) ==
  /\ view = "auth"
  /\ LET u0    == auto_login(user, db)
         users == db.users
     IN  IF rendered(u0) = "dashboard"
         THEN /\ user' = u0 /\ view' = "dashboard" /\ last' = "start"
              /\ UNCHANGED <<entries, db>>
         ELSE IF suname = "" \/ spw = ""
         THEN /\ last' = "signup_incomplete" /\ view' = "auth"
              /\ UNCHANGED <<user, entries, db>>
         ELSE IF suname \in DOMAIN users
         THEN /\ last' = "signup_exists" /\ view' = "auth"
              /\ UNCHANGED <<user, entries, db>>
         ELSE /\ db' = [db EXCEPT !.users =
                          [k \in DOMAIN users \cup {suname} |->
                             IF k = suname
                             THEN [pw |-> hash_pw(spw), entries |-> EMPTY_DICT, remember |-> TRUE]
                             ELSE users[k]]]
              /\ user' = suname
              /\ entries' = EMPTY_DICT
              /\ view' = rendered(user')
              /\ last' = "signup"
  /\ NoAdd
  /\ UNCHANGED <<today, pc, resolver_vars, alt_vars>>

\* the date picker of the dashboard
SelectDate(selected_date) ==
  /\ view = "dashboard"
  /\ today' = selected_date
  /\ last' = "select_date"
  /\ NoAdd
  /\ UNCHANGED <<user, entries, db, view, pc, resolver_vars, alt_vars>>

\* db.setdefault("users", {}); db["users"].setdefault(user, {...})
with_user(d, u) ==
  IF u \in DOMAIN d.users THEN d
  ELSE [d EXCEPT !.users =
          [k \in DOMAIN d.users \cup {u} |->
             IF k = u THEN [pw |-> "", entries |-> EMPTY_DICT, remember |-> TRUE]
             ELSE d.users[k]]]

\* the Add button of the dashboard; new is the list of entries built from text
AddEntries(text, new) ==
  /\ view = "dashboard"
  /\ raw_text' = text
  /\ added' = new
  /\ entries' = IF new = <<>> THEN entries
                ELSE set_list(entries, today, get_list(entries, today) \o new)
  /\ db' = IF new # <<>> THEN store_entries(with_user(db, user), user, entries') ELSE db
  /\ size(entries') <= MaxEntries
  /\ last' = "add"
  /\ UNCHANGED <<user, today, view, pc, resolver_vars, alt_vars>>

Add(text) == AddEntries(text, added_for(text))

\* the Clear today button of the dashboard
Clear ==
  /\ view = "dashboard"
  /\ entries' = set_list(entries, today, <<>>)
  /\ db' = IF user \in DOMAIN db.users THEN store_entries(db, user, entries') ELSE db
  /\ last' = "clear"
  /\ NoAdd
  /\ UNCHANGED <<user, today, view, pc, resolver_vars, alt_vars>>

\* the Logout button of the dashboard, and the rerun it asks for
Logout ==
  /\ view = "dashboard"
  /\ db' = IF user \in DOMAIN db.users THEN store_entries(db, user, entries) ELSE db
  /\ user' = auto_login(None, db')
  /\ view' = rendered(user')
  /\ last' = "logout"
  /\ NoAdd
  /\ UNCHANGED <<entries, today, pc, resolver_vars, alt_vars>>

\* the Reset account data button of the dashboard
Reset ==
  /\ view = "dashboard"
  /\ db' = IF user \in DOMAIN db.users THEN store_entries(db, user, EMPTY_DICT) ELSE db
  /\ entries' = EMPTY_DICT
  /\ last' = "reset"
  /\ NoAdd
  /\ UNCHANGED <<user, today, view, pc, resolver_vars, alt_vars>>

\* ------------------------------------------------------------------------
\* Specifications
\* ------------------------------------------------------------------------
Init == InitSession /\ ResolverIdle /\ AltIdle /\ pc = "idle"

Next ==
  \/ PageRun
  \/ \E uname \in USERNAMES, pw \in PASSWORDS, remember \in BOOLEAN : Login(uname, pw, remember)
  \/ \E suname \in USERNAMES \cup {""}, spw \in {"pw1", ""} : Signup(suname, spw)
  \/ \E d \in Range(DATES) : SelectDate(d)
  \/ \E text \in RAW_TEXTS : Add(text)
  \/ Clear
  \/ Logout
  \/ Reset

Spec == Init /\ [][Next]_vars

InitR == InitResolve /\ AltIdle /\ SessionIdle

NextR == Resolve

SpecResolve == InitR /\ [][NextR]_vars

InitA == InitAlt /\ ResolverIdle /\ SessionIdle

NextA == Alternatives

SpecAlt == InitA /\ [][NextA]_vars

\* ------------------------------------------------------------------------
\* Properties
\* ------------------------------------------------------------------------

\* C1: every catalog key k resolves to itself: the resolver returns the name k
\* and the calories FOOD_DB[k].
C1_CatalogKeyResolvesToItself ==
  (pc = "resolved" /\ item_text \in FOOD_KEYS)
    => result = [name |-> item_text, kcal |-> FOOD_DB[item_text]]

\* C2: Add splits the text exactly at commas and newlines, drops the blank
\* pieces, and appends one entry per remaining phrase, in input order, to the
\* list of the selected date.
C2_SplitAtCommasAndNewlines ==
  last = "add" =>
    LET n        == Len(raw_text)
        IsSep(i) == raw_text[i] \in {",", "\n"}
        starts   == { i \in 1..n : ~IsSep(i) /\ (i = 1 \/ IsSep(i - 1)) }
        end(i)   == CHOOSE j \in i..n :
                      /\ \A k \in i..j : ~IsSep(k)
                      /\ j = n \/ IsSep(j + 1)
        piece(i) == SubSeq(raw_text, i, end(i))
        kept     == { i \in starts : strip(piece(i)) # <<>> }
        rank(i)  == Cardinality({ j \in kept : j <= i })
        lst      == get_list(entries, today)
    IN  /\ Len(added) = Cardinality(kept)
        /\ \A i \in kept : added[rank(i)] = entry_of(piece(i))
        /\ Len(lst) >= Len(added)
        /\ SubSeq(lst, Len(lst) - Len(added) + 1, Len(lst)) = added

\* C3: for a non-blank phrase the resolver returns a name that is a catalog
\* key or the trimmed phrase followed by " (estimated)", and a non-negative
\* integer number of calories.
C3_NameIsKeyOrEstimated ==
  pc = "resolved" =>
    /\ \/ result.name \in FOOD_KEYS
       \/ result.name = strip(item_text) \o ESTIMATED_SUFFIX
    /\ result.kcal \in Nat

C3_Witness ==
  /\ pc = "resolved"
  /\ item_text = <<"t","e","a">>
  /\ name = <<"c","h","a","i">>
  /\ result.name = <<"t","e","a"," ","(","e","s","t","i","m","a","t","e","d",")">>

\* C4: without a digit in the phrase, the number words are matched as whole
\* words whatever their case, and the first WORD_NUM entry, in table order,
\* that occurs gives the quantity.
C4_NumberWordsIgnoreCase ==
  (pc = "resolved" /\ \A i \in 1..Len(item_text) : ~IsDigit(item_text[i])) =>
    LET hits == { i \in 1..Len(WORD_NUM) : word_search(WORD_NUM[i][1], lower(item_text)) }
    IN  qty = IF hits = {} THEN 1
              ELSE WORD_NUM[CHOOSE i \in hits : \A j \in hits : i <= j][2]

\* C5: when the phrase contains a digit the quantity is the value of its first
\* run of digits, raised to 1 when that is 0, whatever number words it also
\* contains; the quantity is at least 1 for every phrase.
C5_FirstDigitRunWins ==
  pc = "resolved" =>
    LET n      == Len(item_text)
        digits == { i \in 1..n : IsDigit(item_text[i]) }
        first  == CHOOSE i \in digits : \A j \in digits : i <= j
        stop   == CHOOSE j \in first..n :
                    /\ \A k \in first..j : k \in digits
                    /\ j = n \/ (j + 1) \notin digits
    IN  /\ qty \in Nat /\ qty >= 1
        /\ digits # {} => qty = Max(1, int(SubSeq(item_text, first, stop)))

C5_Witness ==
  /\ pc = "resolved"
  /\ item_text = <<"t","w","o"," ","3"," ","r","o","t","i">>
  /\ qty = 3

\* C6: when the resolved name is no catalog key, the calories are
\* max(50, 150 + 200 fried + 150 butter + 180 sweet - 50 grilled) * quantity,
\* each group counted once when any of its keywords occurs in the lower-cased
\* phrase, and the name is the trimmed phrase followed by " (estimated)".
C6_GenericEstimate ==
  (pc = "resolved" /\ name \notin FOOD_KEYS) =>
    LET hit(words) == IF \E w \in words : Contains(lower(item_text), w) THEN 1 ELSE 0
        base       == 150 + 200 * hit(FRIED_WORDS) + 150 * hit(BUTTER_WORDS)
                          + 180 * hit(SWEET_WORDS) - 50 * hit(GRILLED_WORDS)
    IN  /\ result.kcal = Max(50, base) * qty
        /\ result.name = strip(item_text) \o ESTIMATED_SUFFIX

C6_Witness ==
  /\ pc = "resolved"
  /\ item_text = <<"3"," ","f","r","i","e","d"," ","p","a","k","o","r","a">>
  /\ name \notin FOOD_KEYS
  /\ qty = 3
  /\ result = [name |-> <<"3"," ","f","r","i","e","d"," ","p","a","k","o","r","a"," ","(","e","s","t","i","m","a","t","e","d",")">>, kcal |-> 1050]

\* C7: generate_alternatives returns, without duplicates, the tips of the
\* ALT_SUGGESTIONS keys that occur in some lower-cased name, ordered by the
\* first name that triggers them and then by table order, followed by the two
\* generic tips as its last two elements.
C7_AlternativesUniqueOrdered ==
  pc = "suggested" =>
    LET n        == Len(tips)
        K        == 1..Len(ALT_SUGGESTIONS)
        In(k, i) == Contains(lower(food_items[i]), ALT_SUGGESTIONS[k][1])
        matched  == { k \in K : \E i \in 1..Len(food_items) : In(k, i) }
        first(k) == CHOOSE i \in 1..Len(food_items) :
                      In(k, i) /\ \A j \in 1..(i - 1) : ~In(k, j)
        key(t)   == CHOOSE k \in matched : ALT_SUGGESTIONS[k][2] = t
    IN  /\ n = Cardinality(matched) + 2
        /\ tips[n - 1] = GENERIC_TIP_1
        /\ tips[n] = GENERIC_TIP_2
        /\ \A i, j \in 1..n : i # j => tips[i] # tips[j]
        /\ { tips[i] : i \in 1..(n - 2) } = { ALT_SUGGESTIONS[k][2] : k \in matched }
        /\ \A i, j \in 1..(n - 2) :
             i < j => \/ first(key(tips[i])) < first(key(tips[j]))
                      \/ /\ first(key(tips[i])) = first(key(tips[j]))
                         /\ key(tips[i]) < key(tips[j])

C7_Witness ==
  /\ pc = "suggested"
  /\ food_items = << <<"S","a","m","o","s","a"," ","H","a","l","w","a"," ","(","e","s","t","i","m","a","t","e","d",")">>, <<"p","a","r","a","t","h","a">> >>
  /\ tips = << ALT_SUGGESTIONS[7][2], ALT_SUGGESTIONS[9][2], ALT_SUGGESTIONS[1][2],
               GENERIC_TIP_1, GENERIC_TIP_2 >>

\* C8: the synonym check comes first: when a SYNONYMS key occurs in the
\* normalised phrase the name is the value of the first such key in table
\* order, also when the phrase is a catalog key or the value is none; a phrase
\* that is a catalog key is returned as itself only when no synonym key occurs.
C8_SynonymBeforeExactKey ==
  pc = "resolved" =>
    LET n    == collapse_ws(lower(strip(item_text)))
        hits == { i \in 1..Len(SYNONYMS) : Contains(n, SYNONYMS[i][1]) }
    IN  IF hits # {}
        THEN name = SYNONYMS[CHOOSE i \in hits : \A j \in hits : i <= j][2]
        ELSE n \in FOOD_KEYS => name = n

C8_Witness ==
  /\ pc = "resolved"
  /\ item_text = <<"c","h","i","c","k","e","n"," ","b","i","r","y","a","n","i">>
  /\ name = <<"b","i","r","y","a","n","i"," ","(","1"," ","p","l","a","t","e",")">>
  /\ result = [name |-> <<"b","i","r","y","a","n","i"," ","(","1"," ","p","l","a","t","e",")">>, kcal |-> 550]

\* C9: after a mutating action the entries of the session are those persisted
\* for the logged-in user, and entries persisted for a user leave the store
\* only by a Clear today or a Reset account data of that user.
C9_PersistedEntriesKept ==
  /\ [](( /\ user # None
          /\ last \in {"login", "signup", "clear", "reset"} \/ (last = "add" /\ added # <<>>) )
          => /\ user \in DOMAIN db.users
             /\ entries = db.users[user].entries)
  /\ [][ \A u \in DOMAIN db.users :
           /\ u \in DOMAIN db'.users
           /\ \/ last' \in {"clear", "reset"} /\ user = u
              \/ \A d \in DOMAIN db.users[u].entries :
                   LET old == db.users[u].entries[d]
                       new == get_list(db'.users[u].entries, d)
                   IN  Len(old) <= Len(new) /\ SubSeq(new, 1, Len(old)) = old ]_vars

\* C10: the page run that follows Logout has no logged-in user and shows the
\* auth panel, whatever the store holds.
C10_LogoutShowsAuthPanel ==
  last = "logout" => (user = None /\ view = "auth")
====
